---- MODULE Spec2Model ----
(***************************************************************************)
(* Greedy workforce scheduler, model/optimizer.py: generate_schedule.       *)
(*                                                                         *)
(* Units.  Hours of work are counted in half hours (ONE_HOUR = 2), so that  *)
(* a fractional max_week_hours such as 0.5 is an integer here.  A           *)
(* productivity and an understaff value are counted in hundredths           *)
(* (1.0 = 100).  A timestamp is the number of hours since Monday            *)
(* 2024-01-01 00:00, the first hour of ISO week 1 of ISO year 2024; ISO     *)
(* years 2024 and 2025 have 52 weeks each and the model stays inside them.  *)
(* Python's None is NoTs for a timestamp and "None" for an employee id.     *)
(* Binary floating point representation error is not modelled: with the    *)
(* values used here every quotient and product is far from a rounding      *)
(* boundary.                                                               *)
(***************************************************************************)
EXTENDS Integers, Sequences, FiniteSets, TLC

VARIABLES
    demand_df,       \* the demand table as passed in (input order)
    employees_df,    \* the roster as passed in (row order)
    pc,              \* position of generate_schedule
    df_d,            \* the demand table sorted by timestamp
    emp_book,        \* employee_id -> ledger entry
    idx,             \* loop index over df_d (1-based)
    ts, hour, demand, week,   \* locals of the current iteration
    avg_capacity,    \* [num, den]: mean productivity in hundredths, num/den
    needed,          \* required headcount of the current slot
    candidates,      \* sorted candidate tuples of the current slot
    chosen,          \* candidates[:needed]
    k,               \* position of the commit loop inside chosen
    assignments,     \* the assignment log, in append order
    rec_idx,         \* history: loop index that appended each record
    final_schedule,  \* the returned assignment log
    df_out           \* the returned coverage report

vars == <<demand_df, employees_df, pc, df_d, emp_book, idx, ts, hour, demand,
          week, avg_capacity, needed, candidates, chosen, k, assignments,
          rec_idx, final_schedule, df_out>>

-----------------------------------------------------------------------------
(* Bounds and input sets *)

MaxSlots == 2

NoTs == 0 - 1

ONE_HOUR == 2
SCALE == 100
MIN_CAPACITY == 10
REST_HOURS == 8
DEFAULT_CAPACITY == 100
HOURS_PER_DAY == 24
HOURS_PER_WEEK == 168
WEEKS_PER_YEAR == 52

\* Mon 2024-01-01 06:00, 08:00 and 20:00 (ISO week 1 of 2024), Mon 2024-01-08
\* 08:00 (week 2), and Mon 2024-12-30 08:00, which is ISO week 1 of ISO year
\* 2025.
Timestamps == {6, 8, 20, 176, 8744}
Demands == {0, 1, 2}

\* The employee profiles rosters are drawn from.  E1 and E2 have the same
\* skill and a cap of 2 h; E3 has a higher skill, a fractional cap (0.5 h) and
\* a productivity of 0.04.  The productivities 1.96, 1.0 and 0.04 give roster
\* means of 1.0 ({E1, E3}, {E1, E2, E3}), above 1.0, below 1.0 and below 0.1.
StaffRows ==
    { [employee_id |-> "E1", skill_level |-> 1, max_week_hours |-> 4,
       preferred_shift |-> "morning", base_productivity |-> 196],
      [employee_id |-> "E2", skill_level |-> 1, max_week_hours |-> 4,
       preferred_shift |-> "afternoon", base_productivity |-> 100],
      [employee_id |-> "E3", skill_level |-> 2, max_week_hours |-> 1,
       preferred_shift |-> "night", base_productivity |-> 4] }

\* Python's order on the employee_id strings; a missing id sorts last.
IdRank(e) ==
    CASE e = "E1" -> 1
      [] e = "E2" -> 2
      [] e = "E3" -> 3
      [] OTHER -> 99

-----------------------------------------------------------------------------
(* Generic helpers *)

Range(s) == {s[i] : i \in DOMAIN s}

Min(a, b) == IF a <= b THEN a ELSE b

Take(s, n) == IF n >= Len(s) THEN s ELSE SubSeq(s, 1, n)

RECURSIVE SumSeq(_)
SumSeq(s) == IF s = <<>> THEN 0 ELSE Head(s) + SumSeq(Tail(s))

Perms(n) == {f \in [1..n -> 1..n] : \A i, j \in 1..n : f[i] = f[j] => i = j}

\* math.ceil(a / b) for a >= 0, b > 0
CeilDiv(a, b) == (a + b - 1) \div b

\* round(a / b) to the nearest integer, ties to even, for a > 0, b > 0
RoundHalfEven(a, b) ==
    LET q == a \div b
        r == a % b
    IN  IF 2 * r < b THEN q
        ELSE IF 2 * r > b THEN q + 1
        ELSE IF q % 2 = 0 THEN q ELSE q + 1

-----------------------------------------------------------------------------
(* Calendar *)

HourOf(t) == t % HOURS_PER_DAY

IsoWeek(t) == ((t \div HOURS_PER_WEEK) % WEEKS_PER_YEAR) + 1

-----------------------------------------------------------------------------
(* Preference windows *)

PREF_SHIFT_WINDOWS ==
    [morning |-> 7..13, afternoon |-> 13..19, evening |-> 16..22,
     night |-> (0..6) \cup {23}, flex |-> 0..23]

_hour_pref_score(pref, h) ==
    IF pref \notin DOMAIN PREF_SHIFT_WINDOWS THEN 0
    ELSE IF h \in PREF_SHIFT_WINDOWS[pref] THEN 1 ELSE 0

-----------------------------------------------------------------------------
(* Input tables *)

DemandRow(t, d) == [timestamp |-> t, hour |-> HourOf(t), demand |-> d]

DemandRows == {DemandRow(t, d) : t \in Timestamps, d \in Demands}

\* Every table of at most MaxSlots rows, in any row order, repeats allowed.
DemandTables == UNION {[1..n -> DemandRows] : n \in 0..MaxSlots}

\* Every roster of distinct employees, in any row order.
Rosters ==
    UNION { {r \in [1..n -> StaffRows] :
                \A i, j \in 1..n : r[i].employee_id = r[j].employee_id => i = j}
            : n \in 0..Cardinality(StaffRows) }

-----------------------------------------------------------------------------
(* Employee ledger, lines 43-55 *)

NewLedgerEntry(row) ==
    [skill |-> row.skill_level,
     max_week_hours |-> row.max_week_hours,
     preferred_shift |-> row.preferred_shift,
     base_productivity |-> row.base_productivity,
     assigned_hours_by_week |-> <<>>,
     last_assigned_ts |-> NoTs]

\* The dict emp_book; its iteration order is the insertion order EmpOrder.
BuildEmpBook(roster) ==
    [e \in {roster[i].employee_id : i \in DOMAIN roster} |->
        NewLedgerEntry(CHOOSE row \in Range(roster) : row.employee_id = e)]

EmpOrder(roster) == [i \in DOMAIN roster |-> roster[i].employee_id]

\* info['assigned_hours_by_week'].get(week, 0.0)
GetHours(info, w) ==
    IF w \in DOMAIN info.assigned_hours_by_week
    THEN info.assigned_hours_by_week[w] ELSE 0

\* assigned_this_week >= max_week_hours: continue
CapReached(info, w) == GetHours(info, w) >= info.max_week_hours

\* The rest check left out.
TooRecent_Never(info, t) == FALSE

\* last_assigned_ts is not None and delta < 8: continue
TooRecent(info, t) ==
    /\ info.last_assigned_ts # NoTs
    /\ t - info.last_assigned_ts < REST_HOURS

-----------------------------------------------------------------------------
(* Headcount, lines 71-72 *)

\* df_e['base_productivity'].mean() if len(df_e) > 0 else 1.0
AvgCapacity(roster) ==
    IF Len(roster) > 0
    THEN [num |-> SumSeq([i \in DOMAIN roster |-> roster[i].base_productivity]),
          den |-> Len(roster)]
    ELSE [num |-> DEFAULT_CAPACITY, den |-> 1]

\* math.ceil(demand / max(0.1, avg_capacity))
NeededFor(d, avg) ==
    IF avg.num >= MIN_CAPACITY * avg.den
    THEN CeilDiv(d * SCALE * avg.den, avg.num)
    ELSE CeilDiv(d * SCALE, MIN_CAPACITY)

-----------------------------------------------------------------------------
(* Candidate ranker, lines 76-106 *)

CandidateTuple(book, e, w, h) ==
    [emp_id |-> e,
     pref_score |-> _hour_pref_score(book[e].preferred_shift, h),
     skill |-> book[e].skill,
     assigned_this_week |-> GetHours(book[e], w),
     prod |-> book[e].base_productivity]

RECURSIVE StrictCandidates(_, _, _, _, _)
StrictCandidates(book, order, t, w, h) ==
    IF order = <<>> THEN <<>>
    ELSE LET e == Head(order)
             rest == StrictCandidates(book, Tail(order), t, w, h)
         IN  IF CapReached(book[e], w) \/ TooRecent(book[e], t)
             THEN rest
             ELSE <<CandidateTuple(book, e, w, h)>> \o rest

RECURSIVE RelaxedCandidates(_, _, _, _)
RelaxedCandidates(book, order, w, h) ==
    IF order = <<>> THEN <<>>
    ELSE LET e == Head(order)
             rest == RelaxedCandidates(book, Tail(order), w, h)
         IN  IF CapReached(book[e], w)
             THEN rest
             ELSE <<CandidateTuple(book, e, w, h)>> \o rest

\* The relaxation left out: the strict candidates are kept as they are.
BuildCandidates_StrictOnly(book, order, t, w, h, n) ==
    StrictCandidates(book, order, t, w, h)

\* if len(candidates) < needed: rebuild without the rest constraint
BuildCandidates(book, order, t, w, h, n) ==
    LET strict == StrictCandidates(book, order, t, w, h)
    IN  IF Len(strict) < n THEN RelaxedCandidates(book, order, w, h) ELSE strict

\* The preference score left out of the key.
KeyLess_NoPreference(a, b) ==
    \/ a.skill > b.skill
    \/ /\ a.skill = b.skill
       /\ a.assigned_this_week < b.assigned_this_week

\* key (-pref_score, -skill, assigned_this_week), compared as Python tuples
KeyLess(a, b) ==
    \/ a.pref_score > b.pref_score
    \/ /\ a.pref_score = b.pref_score
       /\ \/ a.skill > b.skill
          \/ /\ a.skill = b.skill
             /\ a.assigned_this_week < b.assigned_this_week

\* list.sort is stable: x goes before the first element it is strictly
\* less than, hence after every element it ties with.
RECURSIVE InsertStable(_, _)
InsertStable(s, x) ==
    IF s = <<>> THEN <<x>>
    ELSE IF KeyLess(x, Head(s)) THEN <<x>> \o s
    ELSE <<Head(s)>> \o InsertStable(Tail(s), x)

RECURSIVE SortCandidates(_)
SortCandidates(c) ==
    IF c = <<>> THEN <<>>
    ELSE InsertStable(SortCandidates(SubSeq(c, 1, Len(c) - 1)), c[Len(c)])

\* candidates[:needed]
ChooseTop(c, n) == Take(c, n)

-----------------------------------------------------------------------------
(* Assignment committer, lines 109-138 *)

\* emp_info['assigned_hours_by_week'][week] = .get(week, 0.0) + 1.0
\* emp_info['last_assigned_ts'] = ts
CommitEntry(info, t, w) ==
    [info EXCEPT
        !.assigned_hours_by_week =
            [x \in DOMAIN info.assigned_hours_by_week \cup {w} |->
                IF x = w THEN GetHours(info, w) + ONE_HOUR
                ELSE info.assigned_hours_by_week[x]],
        !.last_assigned_ts = t]

AssignmentRecord(book, c, t, h, w) ==
    [employee_id |-> c.emp_id, timestamp |-> t, hour |-> h,
     assigned_hours |-> ONE_HOUR, week |-> w,
     preferred_shift_match |-> c.pref_score,
     skill_level |-> book[c.emp_id].skill,
     base_productivity |-> book[c.emp_id].base_productivity]

\* The sentinel appended for every slot.
NeedsSentinel_Always(ch) == TRUE

\* if len(chosen) == 0
NeedsSentinel(ch) == Len(ch) = 0

SentinelRecord(t, h, w) ==
    [employee_id |-> "None", timestamp |-> t, hour |-> h,
     assigned_hours |-> 0, week |-> w,
     preferred_shift_match |-> 0, skill_level |-> 0, base_productivity |-> 0]

-----------------------------------------------------------------------------
(* Coverage aggregator, lines 140-151 *)

\* schedule_df.groupby("timestamp")["assigned_hours"].sum(): one row per
\* distinct timestamp of the log.
GroupByTimestamp(log) ==
    { [timestamp |-> t,
       total_assigned_hours |->
           SumSeq([i \in DOMAIN log |->
                      IF log[i].timestamp = t THEN log[i].assigned_hours ELSE 0])]
      : t \in {log[i].timestamp : i \in DOMAIN log} }

RECURSIVE SetToSeq(_)
SetToSeq(S) ==
    IF S = {} THEN <<>>
    ELSE LET x == CHOOSE y \in S : TRUE IN <<x>> \o SetToSeq(S \ {x})

\* max(0, round(demand - total_assigned_hours * avg_capacity, 2)), in hundredths
Understaff(d, total, avg) ==
    LET num == 2 * avg.den * SCALE * d - total * avg.num
        den == 2 * avg.den
    IN  IF num <= 0 THEN 0 ELSE RoundHalfEven(num, den)

CoverageRow(row, total, avg) ==
    [timestamp |-> row.timestamp, hour |-> row.hour, demand |-> row.demand,
     total_assigned_hours |-> total,
     understaff |-> Understaff(row.demand, total, avg)]

\* pd.merge(df_d, cover, on="timestamp", how="left"), fillna(0), understaff:
\* one output row per matching cover row, one with total 0 when none matches.
RECURSIVE MergeLeft(_, _, _)
MergeLeft(d, cover, avg) ==
    IF d = <<>> THEN <<>>
    ELSE LET row == Head(d)
             m == SetToSeq({c \in cover : c.timestamp = row.timestamp})
             out == IF m = <<>> THEN <<CoverageRow(row, 0, avg)>>
                    ELSE [i \in DOMAIN m |->
                             CoverageRow(row, m[i].total_assigned_hours, avg)]
         IN  out \o MergeLeft(Tail(d), cover, avg)

\* sort_values(["timestamp", "employee_id"])
LogKeyLess(a, b) ==
    \/ a.timestamp < b.timestamp
    \/ /\ a.timestamp = b.timestamp
       /\ IdRank(a.employee_id) < IdRank(b.employee_id)

RECURSIVE InsertLog(_, _)
InsertLog(s, x) ==
    IF s = <<>> THEN <<x>>
    ELSE IF LogKeyLess(x, Head(s)) THEN <<x>> \o s
    ELSE <<Head(s)>> \o InsertLog(Tail(s), x)

RECURSIVE SortLog(_)
SortLog(log) ==
    IF log = <<>> THEN <<>>
    ELSE InsertLog(SortLog(SubSeq(log, 1, Len(log) - 1)), log[Len(log)])

-----------------------------------------------------------------------------
(* Demand ordering, line 58 *)

IsSortedByTimestamp(d) ==
    \A i, j \in DOMAIN d : i < j => d[i].timestamp <= d[j].timestamp

\* The sort left out: the rows keep their input order.
SortValues_InputOrder(d) == {d}

\* df_d.sort_values("timestamp"): the default sort is not stable, so rows that
\* share a timestamp may come out in any order.
SortValues(d) ==
    { [i \in DOMAIN d |-> d[p[i]]] : p \in
        {q \in Perms(Len(d)) : IsSortedByTimestamp([i \in DOMAIN d |-> d[q[i]]])} }

-----------------------------------------------------------------------------
(* generate_schedule *)

Unbound == [num |-> 0, den |-> 0]

Init ==
    /\ demand_df \in DemandTables
    /\ employees_df \in Rosters
    /\ pc = "start"
    /\ df_d = <<>>
    /\ emp_book = <<>>
    /\ idx = 0
    /\ ts = NoTs
    /\ hour = 0
    /\ demand = 0
    /\ week = 0
    /\ avg_capacity = Unbound
    /\ needed = 0
    /\ candidates = <<>>
    /\ chosen = <<>>
    /\ k = 0
    /\ assignments = <<>>
    /\ rec_idx = <<>>
    /\ final_schedule = <<>>
    /\ df_out = <<>>

\* lines 31-60: copy the inputs, build emp_book, sort the demand rows
Normalize ==
    /\ pc = "start"
    /\ df_d' \in SortValues(demand_df)
    /\ emp_book' = BuildEmpBook(employees_df)
    /\ idx' = 1
    /\ pc' = "loop"
    /\ UNCHANGED <<demand_df, employees_df, ts, hour, demand, week,
                   avg_capacity, needed, candidates, chosen, k, assignments,
                   rec_idx, final_schedule, df_out>>

\* lines 63-106: headcount, candidates, relaxation, ranking, selection
BeginSlot ==
    /\ pc = "loop"
    /\ idx <= Len(df_d)
    /\ LET row == df_d[idx]
           t == row.timestamp
           h == row.hour
           avg == AvgCapacity(employees_df)
           n == NeededFor(row.demand, avg)
           w == IsoWeek(t)
           c == SortCandidates(
                    BuildCandidates(emp_book, EmpOrder(employees_df), t, w, h, n))
       IN  /\ ts' = t
           /\ hour' = h
           /\ demand' = row.demand
           /\ avg_capacity' = avg
           /\ needed' = n
           /\ week' = w
           /\ candidates' = c
           /\ chosen' = ChooseTop(c, n)
    /\ k' = 1
    /\ pc' = "commit"
    /\ UNCHANGED <<demand_df, employees_df, df_d, emp_book, idx, assignments,
                   rec_idx, final_schedule, df_out>>

\* lines 109-124: one iteration of the loop over chosen
Commit ==
    /\ pc = "commit"
    /\ k <= Len(chosen)
    /\ LET c == chosen[k]
       IN  /\ emp_book' = [emp_book EXCEPT
                              ![c.emp_id] = CommitEntry(@, ts, week)]
           /\ assignments' =
                  Append(assignments,
                         AssignmentRecord(emp_book, c, ts, hour, week))
    /\ rec_idx' = Append(rec_idx, idx)
    /\ k' = k + 1
    /\ UNCHANGED <<demand_df, employees_df, pc, df_d, idx, ts, hour, demand,
                   week, avg_capacity, needed, candidates, chosen,
                   final_schedule, df_out>>

\* lines 126-138 and the loop's advance: the sentinel row when nothing was chosen
EndSlot ==
    /\ pc = "commit"
    /\ k > Len(chosen)
    /\ IF NeedsSentinel(chosen)
       THEN /\ assignments' = Append(assignments, SentinelRecord(ts, hour, week))
            /\ rec_idx' = Append(rec_idx, idx)
       ELSE UNCHANGED <<assignments, rec_idx>>
    /\ idx' = idx + 1
    /\ pc' = "loop"
    /\ UNCHANGED <<demand_df, employees_df, df_d, emp_book, ts, hour, demand,
                   week, avg_capacity, needed, candidates, chosen, k,
                   final_schedule, df_out>>

\* lines 140-156 with a log that has rows
Aggregate ==
    /\ pc = "loop"
    /\ idx > Len(df_d)
    /\ assignments # <<>>
    /\ df_out' = MergeLeft(df_d, GroupByTimestamp(assignments), avg_capacity)
    /\ final_schedule' = SortLog(assignments)
    /\ pc' = "done"
    /\ UNCHANGED <<demand_df, employees_df, df_d, emp_book, idx, ts, hour,
                   demand, week, avg_capacity, needed, candidates, chosen, k,
                   assignments, rec_idx>>

\* line 143 with an empty log: pd.DataFrame([]) has no "timestamp" column and
\* groupby raises KeyError; nothing is returned.
AggregateRaises ==
    /\ pc = "loop"
    /\ idx > Len(df_d)
    /\ assignments = <<>>
    /\ pc' = "raised"
    /\ UNCHANGED <<demand_df, employees_df, df_d, emp_book, idx, ts, hour,
                   demand, week, avg_capacity, needed, candidates, chosen, k,
                   assignments, rec_idx, final_schedule, df_out>>

Next ==
    \/ Normalize
    \/ BeginSlot
    \/ Commit
    \/ EndSlot
    \/ Aggregate
    \/ AggregateRaises

Spec == Init /\ [][Next]_vars

TypeOK ==
    /\ pc \in {"start", "loop", "commit", "done", "raised"}
    /\ idx \in 0..(MaxSlots + 1)
    /\ Len(assignments) = Len(rec_idx)

-----------------------------------------------------------------------------
(* The loop of lines 63-138 as a function of its inputs, for the properties  *)
(* that compare two runs.                                                    *)

RECURSIVE CommitAll(_, _, _, _)
CommitAll(book, ch, t, w) ==
    IF ch = <<>> THEN book
    ELSE CommitAll([book EXCEPT ![Head(ch).emp_id] = CommitEntry(@, t, w)],
                   Tail(ch), t, w)

RECURSIVE RecordsOf(_, _, _, _, _)
RecordsOf(book, ch, t, h, w) ==
    IF ch = <<>> THEN <<>>
    ELSE <<AssignmentRecord(book, Head(ch), t, h, w)>>
         \o RecordsOf([book EXCEPT ![Head(ch).emp_id] = CommitEntry(@, t, w)],
                      Tail(ch), t, h, w)

RECURSIVE RunSlots(_, _, _, _)
RunSlots(book, order, rows, avg) ==
    IF rows = <<>> THEN <<>>
    ELSE LET row == Head(rows)
             t == row.timestamp
             h == row.hour
             n == NeededFor(row.demand, avg)
             w == IsoWeek(t)
             ch == ChooseTop(
                       SortCandidates(BuildCandidates(book, order, t, w, h, n)), n)
             recs == RecordsOf(book, ch, t, h, w)
                     \o (IF NeedsSentinel(ch) THEN <<SentinelRecord(t, h, w)>>
                         ELSE <<>>)
         IN  recs \o RunSlots(CommitAll(book, ch, t, w), order, Tail(rows), avg)

\* The assignment log generate_schedule returns for a sorted demand table.
RunLog(rows, roster) ==
    SortLog(RunSlots(BuildEmpBook(roster), EmpOrder(roster), rows,
                     AvgCapacity(roster)))

\* The run of the actions and the loop as a function agree.
ReplayAgrees == pc = "done" => final_schedule = RunLog(df_d, employees_df)

-----------------------------------------------------------------------------
(* Vocabulary of the properties *)

\* Eligibility of the current slot has been evaluated, nothing committed yet:
\* emp_book is the ledger as it was before this slot.
AtSelection == pc = "commit" /\ k = 1

\* The slot idx - 1 has just been completed.
SlotDone == pc = "loop" /\ idx > 1

HoursThisWeek(e) ==
    IF week \in DOMAIN emp_book[e].assigned_hours_by_week
    THEN emp_book[e].assigned_hours_by_week[week] ELSE 0

CapEligible == {e \in DOMAIN emp_book : HoursThisWeek(e) < emp_book[e].max_week_hours}

Rested(e) ==
    \/ emp_book[e].last_assigned_ts = NoTs
    \/ ts - emp_book[e].last_assigned_ts >= REST_HOURS

StrictEligible == {e \in CapEligible : Rested(e)}

ChosenIds == {chosen[i].emp_id : i \in DOMAIN chosen}

CandidateIds == {candidates[i].emp_id : i \in DOMAIN candidates}

\* Indices of the log records appended while processing slot j.
RecordsOfSlot(j) == {i \in DOMAIN assignments : rec_idx[i] = j}

IsSentinel(r) == r.employee_id = "None" /\ r.assigned_hours = 0

IsReal(r) == r.employee_id # "None" /\ r.assigned_hours = ONE_HOUR

HasSentinel(j) == \E i \in RecordsOfSlot(j) : IsSentinel(assignments[i])

\* Slots whose processing is complete.
CompletedSlots == 1..(idx - 1)

-----------------------------------------------------------------------------
(* C1: after every commit, for every employee and every week, the hours      *)
(* recorded in assigned_hours_by_week[week] are at most the employee's       *)
(* max_week_hours, for any positive max_week_hours (a float in the data      *)
(* model).  The code admits an employee whose hours are below the cap and    *)
(* then adds a whole hour, so a fractional cap is overshot.                  *)
C1_WeeklyCap ==
    \A e \in DOMAIN emp_book :
        \A w \in DOMAIN emp_book[e].assigned_hours_by_week :
            emp_book[e].assigned_hours_by_week[w] <= emp_book[e].max_week_hours

-----------------------------------------------------------------------------
(* C2: in every slot in which the strictly eligible employees (cap not       *)
(* reached and never assigned or assigned at least 8 hours before the slot)  *)
(* number at least the required headcount, every employee chosen for the     *)
(* slot had no prior assignment or was last assigned at least 8 hours before *)
(* the slot's timestamp.                                                     *)
C2_RestGapUnderStrictPass ==
    (AtSelection /\ Cardinality(StrictEligible) >= needed) =>
        \A i \in DOMAIN chosen :
            \/ emp_book[chosen[i].emp_id].last_assigned_ts = NoTs
            \/ ts - emp_book[chosen[i].emp_id].last_assigned_ts >= REST_HOURS

\* The strict pass suffices, somebody is chosen, and the rest gap keeps out an
\* employee who is still below the weekly cap.
C2_Witness ==
    /\ AtSelection
    /\ Cardinality(StrictEligible) >= needed
    /\ chosen # <<>>
    /\ \E e \in CapEligible : ~Rested(e)

-----------------------------------------------------------------------------
(* C3: for any demand table with a timestamp column, the empty table and     *)
(* tables with repeated timestamps included, generate_schedule returns a     *)
(* coverage report with exactly one row per demand row.  For the empty       *)
(* table the code raises instead of returning.                               *)
C3_LeftJoinCompleteness ==
    pc \in {"done", "raised"} =>
        /\ pc = "done"
        /\ Len(df_out) = Len(demand_df)

-----------------------------------------------------------------------------
(* C4: for every coverage row, understaff = max(0, demand -                  *)
(* total_assigned_hours * avg_capacity) rounded to 2 decimals, hence >= 0,   *)
(* with avg_capacity the value the headcount computation used (the roster's  *)
(* mean productivity floored at 0.1, 1.0 for an empty roster); so a slot     *)
(* whose needed headcount was fully assigned has understaff = 0.  The code   *)
(* floors the mean only inside the headcount computation.                    *)
C4_FlooredCapacity ==
    IF avg_capacity.num >= MIN_CAPACITY * avg_capacity.den
    THEN avg_capacity ELSE [num |-> MIN_CAPACITY, den |-> 1]

C4_UnderstaffFormula ==
    pc = "done" =>
        \A i \in DOMAIN df_out :
            LET r == df_out[i]
                x == 2 * C4_FlooredCapacity.den * SCALE * r.demand
                     - r.total_assigned_hours * C4_FlooredCapacity.num
            IN  /\ r.understaff >= 0
                /\ r.understaff =
                       (IF x <= 0 THEN 0
                        ELSE RoundHalfEven(x, 2 * C4_FlooredCapacity.den))
                /\ (r.total_assigned_hours
                        >= ONE_HOUR * NeededFor(r.demand, avg_capacity))
                       => r.understaff = 0

-----------------------------------------------------------------------------
(* C5: in every slot, with scores taken from the ledger before any commit    *)
(* for the slot, the chosen employees are the first `needed` of the          *)
(* candidate set ordered by preference match descending, then skill          *)
(* descending, then current-week hours ascending; no candidate left          *)
(* unchosen has a strictly better key than a chosen one.                     *)
C5_Better(a, b) ==
    \/ a.pref_score > b.pref_score
    \/ a.pref_score = b.pref_score /\ a.skill > b.skill
    \/ /\ a.pref_score = b.pref_score
       /\ a.skill = b.skill
       /\ a.assigned_this_week < b.assigned_this_week

C5_RankedSelection ==
    AtSelection =>
        /\ CandidateIds =
               (IF Cardinality(StrictEligible) >= needed
                THEN StrictEligible ELSE CapEligible)
        /\ \A i \in DOMAIN candidates :
               LET c == candidates[i]
               IN  /\ c.assigned_this_week = HoursThisWeek(c.emp_id)
                   /\ c.skill = emp_book[c.emp_id].skill
                   /\ c.pref_score =
                          (IF hour \in PREF_SHIFT_WINDOWS[
                                          emp_book[c.emp_id].preferred_shift]
                           THEN 1 ELSE 0)
        /\ \A i, j \in DOMAIN candidates :
               i < j => ~C5_Better(candidates[j], candidates[i])
        /\ Len(chosen) = Min(needed, Len(candidates))
        /\ \A i \in DOMAIN chosen : chosen[i] = candidates[i]
        /\ \A i \in DOMAIN chosen :
               \A j \in DOMAIN candidates :
                   j > Len(chosen) => ~C5_Better(candidates[j], chosen[i])

\* A candidate is left out although it ties on nothing: each of the three
\* keys separates some chosen candidate from some unchosen one.
C5_Witness ==
    /\ AtSelection
    /\ chosen # <<>>
    /\ Len(candidates) > Len(chosen)
    /\ \E i \in DOMAIN chosen :
           \E j \in DOMAIN candidates :
               /\ j > Len(chosen)
               /\ chosen[i].pref_score > candidates[j].pref_score
               /\ chosen[i].skill < candidates[j].skill

\* The hours key decides between two candidates equal in preference and skill.
C5_HoursKeyDecides ==
    /\ AtSelection
    /\ \E i \in DOMAIN chosen :
           \E j \in DOMAIN candidates :
               /\ j > Len(chosen)
               /\ chosen[i].pref_score = candidates[j].pref_score
               /\ chosen[i].skill = candidates[j].skill
               /\ chosen[i].assigned_this_week < candidates[j].assigned_this_week

-----------------------------------------------------------------------------
(* C6: candidates that tie on (preference match, skill, current-week hours)  *)
(* are ordered by a fixed key of the employee itself, so two runs on the     *)
(* same demand rows and the same set of employee profiles produce the same   *)
(* assignment log whatever the order of the roster rows.  The code breaks    *)
(* ties by roster row order.                                                 *)
C6_RosterOrderIndependent ==
    pc = "done" =>
        \A r \in Rosters :
            Range(r) = Range(employees_df) => RunLog(df_d, r) = final_schedule

-----------------------------------------------------------------------------
(* C7: in every slot the number of employees assigned is min(needed, number  *)
(* of employees whose current-week hours are below their max_week_hours).    *)
(* When the strict candidates number fewer than needed the selection is made *)
(* from all cap-eligible employees, so a slot falls short of its headcount   *)
(* only when every cap-eligible employee has been assigned to it, and each   *)
(* employee is assigned at most once per slot.                               *)
C7_FillCount ==
    /\ AtSelection =>
        /\ Len(chosen) = Min(needed, Cardinality(CapEligible))
        /\ ChosenIds \subseteq CapEligible
        /\ Cardinality(ChosenIds) = Len(chosen)
        /\ Len(chosen) < needed => ChosenIds = CapEligible
    /\ SlotDone =>
        /\ {assignments[i].employee_id : i \in RecordsOfSlot(idx - 1)} \ {"None"}
               = ChosenIds
        /\ Cardinality({i \in RecordsOfSlot(idx - 1) : IsReal(assignments[i])})
               = Len(chosen)

\* The strict pass falls short, and the slot is filled with an employee the
\* rest gap would have kept out.
C7_Witness ==
    /\ SlotDone
    /\ needed > 0
    /\ Len(chosen) = needed
    /\ \E i \in RecordsOfSlot(idx - 1) :
           \E j \in DOMAIN assignments :
               /\ rec_idx[j] < idx - 1
               /\ assignments[j].employee_id = assignments[i].employee_id
               /\ assignments[i].timestamp - assignments[j].timestamp < REST_HOURS
               /\ IsReal(assignments[i])

-----------------------------------------------------------------------------
(* C8: the demand rows are processed in ascending timestamp order whatever   *)
(* their input order; when a slot's eligibility is evaluated every slot with *)
(* a strictly earlier timestamp has been fully committed and no later slot   *)
(* has; an employee's last_assigned_timestamp never decreases; and the       *)
(* assignment log does not depend on the input order of demand rows with     *)
(* distinct timestamps.                                                      *)
C8_Count(a, r) == Cardinality({i \in DOMAIN a : a[i] = r})

\* a and b hold the same rows, each the same number of times.
C8_IsPermutation(a, b) ==
    /\ Len(a) = Len(b)
    /\ \A r \in {a[i] : i \in DOMAIN a} \cup {b[i] : i \in DOMAIN b} :
           C8_Count(a, r) = C8_Count(b, r)

C8_DistinctTimestamps(d) ==
    \A i, j \in DOMAIN d : d[i].timestamp = d[j].timestamp => i = j

C8_Order ==
    /\ pc # "start" =>
        /\ C8_IsPermutation(df_d, demand_df)
        /\ \A i, j \in DOMAIN df_d :
               i < j => df_d[i].timestamp <= df_d[j].timestamp
    /\ AtSelection =>
        /\ ts = df_d[idx].timestamp
        /\ {rec_idx[i] : i \in DOMAIN rec_idx} = 1..(idx - 1)
        /\ \A i \in DOMAIN df_d :
               /\ df_d[i].timestamp < ts => i < idx
               /\ df_d[i].timestamp > ts => i > idx
    /\ (pc = "done" /\ C8_DistinctTimestamps(demand_df)) =>
        \A q \in Perms(Len(demand_df)) :
            \A s \in SortValues([i \in DOMAIN demand_df |-> demand_df[q[i]]]) :
                RunLog(s, employees_df) = final_schedule

C8_LastAssignedMonotone ==
    \A e \in DOMAIN emp_book :
        e \in DOMAIN emp_book' =>
            emp_book'[e].last_assigned_ts >= emp_book[e].last_assigned_ts

C8_ProcessingOrder == [](C8_Order) /\ [][C8_LastAssignedMonotone]_vars

\* Rows given in descending timestamp order, and an employee assigned in both.
C8_Witness ==
    /\ pc = "done"
    /\ Len(demand_df) >= 2
    /\ demand_df[1].timestamp > demand_df[2].timestamp
    /\ \E i, j \in DOMAIN assignments :
           /\ i < j
           /\ IsReal(assignments[i])
           /\ assignments[i].employee_id = assignments[j].employee_id
           /\ assignments[i].timestamp < assignments[j].timestamp

-----------------------------------------------------------------------------
(* C9: for every processed slot the log holds either one record with         *)
(* assigned_hours = 1.0 per chosen employee and no sentinel, or, when        *)
(* nothing was chosen, exactly one sentinel (employee_id none,               *)
(* assigned_hours 0.0); the two never coexist, every slot has a record, and  *)
(* with an empty roster every slot gets a sentinel.                          *)
C9_Records ==
    /\ \A j \in CompletedSlots :
        /\ RecordsOfSlot(j) # {}
        /\ \/ \A i \in RecordsOfSlot(j) : IsReal(assignments[i])
           \/ /\ Cardinality(RecordsOfSlot(j)) = 1
              /\ \A i \in RecordsOfSlot(j) : IsSentinel(assignments[i])
        /\ \A i \in RecordsOfSlot(j) :
               assignments[i].timestamp = df_d[j].timestamp
        /\ employees_df = <<>> => HasSentinel(j)
    /\ SlotDone =>
        /\ HasSentinel(idx - 1) <=> chosen = <<>>
        /\ chosen # <<>> =>
               /\ Cardinality(RecordsOfSlot(idx - 1)) = Len(chosen)
               /\ {assignments[i].employee_id : i \in RecordsOfSlot(idx - 1)}
                      = ChosenIds

-----------------------------------------------------------------------------
(* C10: the hours counter used for the weekly cap and for ranking counts     *)
(* only the hours committed in slots of the same calendar week; when the     *)
(* timeline moves to another calendar week, one with the same week number in *)
(* another year included, the employee starts again from zero.  The code     *)
(* keys the counter by the ISO week number alone.                            *)
C10_CalendarWeek(t) == t \div HOURS_PER_WEEK

C10_CalendarWeekHours(e) ==
    ONE_HOUR * Cardinality({i \in DOMAIN assignments :
                               /\ assignments[i].employee_id = e
                               /\ C10_CalendarWeek(assignments[i].timestamp)
                                      = C10_CalendarWeek(ts)})

C10_PerCalendarWeek ==
    AtSelection =>
        /\ \A i \in DOMAIN candidates :
               candidates[i].assigned_this_week
                   = C10_CalendarWeekHours(candidates[i].emp_id)
        /\ \A e \in DOMAIN emp_book :
               e \notin CapEligible =>
                   C10_CalendarWeekHours(e) >= emp_book[e].max_week_hours

====
